---- MODULE Spec2Model ----
(***************************************************************************)
(* The streaming response pipeline of the DeepSeek desktop chat client     *)
(* (deepseek_python_20250718_eb2c6a.py): DeepSeekApp's main-thread         *)
(* handlers, the ApiRequestThread workers, Qt's queued signal delivery     *)
(* between them, and the ConfigManager store.                              *)
(*                                                                         *)
(* Text is a sequence of tokens: <<e, 0>> is the text the user typed for   *)
(* exchange e, <<w, i>> (i >= 1) is the i-th fragment the transport call   *)
(* of worker w produced.  String concatenation is sequence concatenation,  *)
(* the empty string is << >>.                                              *)
(*                                                                         *)
(* Threads.  The main thread runs one handler at a time (each handler is   *)
(* one action).  A signal emitted by a worker thread is a queued           *)
(* connection: the emit appends an event to the main thread's event queue  *)
(* and the main thread later runs the connected slot.  User input (button  *)
(* clicks, Return) reaches the main thread at arbitrary times, so a user   *)
(* handler may run between any two queued deliveries.  QMessageBox dialogs *)
(* are left out: while one is open queued signals are still delivered and  *)
(* the user cannot act, which is a subset of the behaviours below.         *)
(***************************************************************************)
EXTENDS Integers, Sequences, FiniteSets, TLC

\* Bounds of the model.
MaxExchanges == 2
MaxFrags == 2

MaxCalls == 3
MaxClients == 2
MaxTime == 3

Workers == 1..MaxExchanges
NoThread == 0
NoEntry == 0
Calls == 1..MaxCalls
Clients == 1..MaxClients

VARIABLES
  \* DeepSeekApp
  streaming,          \* self.streaming
  current_response,   \* self.current_response
  messages,           \* self.messages
  msgs_entry,         \* index of the history entry whose "messages" list is
                      \* the object self.messages, NoEntry if there is none
  api_thread,         \* self.api_thread (NoThread: attribute not set)
  send_enabled,       \* self.send_button.isEnabled()
  stop_enabled,       \* self.stop_button.isEnabled()
  client,             \* self.client: "None" or "client"
  \* ApiRequestThread, one per accepted send_message
  wpc,                \* position of run() in each worker
  wstream,            \* self.stream
  stop_requested,     \* self.stop_requested
  pulled,             \* fragments the worker's generator has yielded so far
  wmessages,          \* contents of the list object the worker holds as
                      \* self.messages, until chat() has read it
  sharing,            \* the workers yet to read their list whose list is the
                      \* object the controller's self.messages is bound to
  \* Qt event queue of the main thread (queued signals)
  queue,
  \* ConfigManager
  DEFAULT_CONFIG,     \* the class attribute; its user dict and lists are mutable
  config,             \* self.config
  aliased,            \* keys k for which config[k] is the object DEFAULT_CONFIG[k]
  \* config.json and the disk it is on
  file_state,         \* "absent", "ok" (a JSON document) or "corrupt"
  file_doc,           \* what was dumped into it, when file_state = "ok"
  disk_ok,            \* whether a write to the file succeeds
  last_write_ok,      \* whether the last save_config wrote the file
  last_op,            \* the ConfigManager method called last (store runs)
  \* history of the run, recorded for the properties
  emitted,            \* per worker: fragments passed to response_received.emit
  delivered,          \* per worker: fragments update_response received
  observed,           \* per worker: run() has read stop_requested as True
  failed,             \* per worker: run() entered its except branch
  fin_handled,        \* per worker: on_request_finished ran for its signal
  err_handled,        \* per worker: how often on_api_error ran for its signal
  committed,          \* per exchange: contents appended as assistant message
  stopped_at,         \* per exchange: fragments delivered when stopped, or -1
  late,               \* per worker: fragments delivered after its stop()
  \* DeepSeekClient objects and the calls of chat() (rate-limit runs)
  clock,              \* time.time(), in ticks
  cur_client,         \* which client object self.client is
  last_request_time,  \* per client object: self.last_request_time
  cpc,                \* per call: position in the body of chat()
  cclient,            \* per call: the client object it was made on
  cstream,            \* per call: its stream argument
  current_time,       \* per call: the local current_time
  \* DeepSeekClient.process_stream on one response (stream runs)
  lines,              \* what response.iter_lines() gives, line by line
  lineno,             \* lines the for loop has taken
  yielded,            \* the contents yielded so far
  gen,                \* the generator: "none", "running", "returned", "raised"
  \* DeepSeekClient.chat on one non-streaming response (reply runs)
  response,           \* what requests.post returned, status "none" before
  posts               \* how many times requests.post was called

appvars == <<streaming, current_response, messages, msgs_entry, api_thread,
             send_enabled, stop_enabled, client>>
workervars == <<wpc, wstream, stop_requested, pulled>>
listvars == <<wmessages, sharing>>
savedvars == <<DEFAULT_CONFIG, config, aliased, file_state, file_doc,
               last_write_ok>>
envvars == <<disk_ok, last_op>>
storevars == <<savedvars, envvars>>
histvars == <<emitted, delivered, observed, failed, fin_handled, err_handled,
              committed, stopped_at, late>>
streamvars == <<lines, lineno, yielded, gen, response, posts>>
ratevars == <<clock, cur_client, last_request_time, cpc, cclient, cstream,
              current_time, streamvars>>
vars == <<appvars, workervars, listvars, queue, storevars, histvars, ratevars>>

----------------------------------------------------------------------------
\* Data

\* A text is a sequence of characters, a character a pair of integers.
\* UserText(e) is the one-character text <<e, 0>>, a fragment one character.
UserText(e) == << <<e, 0>> >>
Fragment(w, i) == <<w, i>>
\* The first n fragments worker w's transport call produces, concatenated.
Frags(w, n) == [i \in 1..n |-> Fragment(w, i)]

Message(role, content) == [role |-> role, content |-> content]

Event(sig, w, i) == [sig |-> sig, w |-> w, i |-> i]

\* A signal emitted in a worker thread for a slot of the main-thread object:
\* the event is appended to the receiver's event queue.
PostFront(q, ev) == <<ev>> \o q
Post(q, ev) == Append(q, ev)

----------------------------------------------------------------------------
\* config.json as text: json.dump(self.config, f, ensure_ascii=False, indent=2)
\* and json.load(f) on a file opened with encoding='utf-8'

Quote == <<0, 1>>           \* the character "
Backslash == <<0, 2>>       \* the character \
Surrogate == <<0, 3>>       \* a lone surrogate: a str may hold it, UTF-8 not
Letter == <<0, 4>>          \* any other character

\* The body of a JSON string: a quote and a backslash get a backslash before
\* them, every other character is written as it is.
RECURSIVE Escape(_)
NoEscape(text) == text
Escape(text) ==
  IF \A i \in DOMAIN text : text[i] \notin {Quote, Backslash} THEN text
  ELSE (IF Head(text) \in {Quote, Backslash} THEN <<Backslash, Head(text)>>
                                             ELSE <<Head(text)>>)
       \o Escape(Tail(text))

JsonString(text) == <<Quote>> \o Escape(text) \o <<Quote>>

\* The decoder after the opening quote: it reads up to the first quote that
\* has no backslash before it, and what follows that quote must be nothing.
RECURSIVE ScanString(_)
ScanString(s) ==
  IF s = << >> THEN [ok |-> FALSE, text |-> << >>]
  ELSE IF Head(s) = Quote THEN [ok |-> Tail(s) = << >>, text |-> << >>]
  ELSE IF Head(s) = Backslash
    THEN IF Len(s) >= 2 /\ s[2] \in {Quote, Backslash}
           THEN LET rest == ScanString(SubSeq(s, 3, Len(s))) IN
                [ok |-> rest.ok, text |-> <<s[2]>> \o rest.text]
           ELSE [ok |-> FALSE, text |-> << >>]
    ELSE LET rest == ScanString(Tail(s)) IN
         [ok |-> rest.ok, text |-> <<Head(s)>> \o rest.text]

ParseString(lit) ==
  IF lit # << >> /\ Head(lit) = Quote THEN ScanString(Tail(lit))
                                      ELSE [ok |-> FALSE, text |-> << >>]

\* The texts of a configuration: the titles of its history entries and the
\* contents of its messages.  The other values are written and read back as
\* they are.
TextKeys == {"content", "title"}
DumpRecord(rec) ==
  [k \in DOMAIN rec |-> IF k \in TextKeys THEN JsonString(rec[k]) ELSE rec[k]]
DumpMessages(msgs) == [i \in DOMAIN msgs |-> DumpRecord(msgs[i])]
DumpEntry(entry) ==
  [k \in DOMAIN entry |->
     IF k = "messages" THEN DumpMessages(entry[k])
     ELSE IF k \in TextKeys THEN JsonString(entry[k]) ELSE entry[k]]
ParsedText(lit) == ParseString(lit).text
LoadRecord(rec) ==
  [k \in DOMAIN rec |-> IF k \in TextKeys THEN ParsedText(rec[k]) ELSE rec[k]]
LoadMessages(msgs) == [i \in DOMAIN msgs |-> LoadRecord(msgs[i])]
LoadEntry(entry) ==
  [k \in DOMAIN entry |->
     IF k = "messages" THEN LoadMessages(entry[k])
     ELSE IF k \in TextKeys THEN ParsedText(entry[k]) ELSE entry[k]]
TextsOf(msgs) ==
  UNION {{msgs[i][k] : k \in TextKeys \cap DOMAIN msgs[i]} : i \in DOMAIN msgs}
DocTexts(doc) ==
  (IF "current_session" \in DOMAIN doc THEN TextsOf(doc.current_session) ELSE {})
  \union
  (IF "history" \in DOMAIN doc
     THEN UNION {TextsOf(doc.history[i].messages) \union {doc.history[i].title}
                   : i \in DOMAIN doc.history}
     ELSE {})

\* json.dump: the document as the file holds it.
json_dump(cfg) ==
  [k \in DOMAIN cfg |->
     IF k = "current_session" THEN DumpMessages(cfg[k])
     ELSE IF k = "history" THEN [i \in DOMAIN cfg[k] |-> DumpEntry(cfg[k][i])]
     ELSE cfg[k]]
\* The file object encodes what json.dump writes: a lone surrogate raises
\* UnicodeEncodeError in the middle of the dump.
EncodableList(msgs) ==
  \A i \in DOMAIN msgs : \A k \in TextKeys \cap DOMAIN msgs[i] :
    \A j \in DOMAIN msgs[i][k] : msgs[i][k][j] # Surrogate
Encodable(cfg) ==
  /\ EncodableList(cfg.current_session)
  /\ \A i \in DOMAIN cfg.history :
       /\ EncodableList(cfg.history[i].messages)
       /\ \A j \in DOMAIN cfg.history[i].title : cfg.history[i].title[j] # Surrogate
\* json.load: it raises JSONDecodeError when a string of the file is not
\* well formed, and returns the parsed document otherwise.
Parses(doc) == \A lit \in DocTexts(doc) : ParseString(lit).ok
json_load(doc) ==
  [k \in DOMAIN doc |->
     IF k = "current_session" THEN LoadMessages(doc[k])
     ELSE IF k = "history" THEN [i \in DOMAIN doc[k] |-> LoadEntry(doc[k][i])]
     ELSE doc[k]]

----------------------------------------------------------------------------
\* ConfigManager

EmptyUser == [username |-> "", login_type |-> "manual", last_login |-> ""]

\* DEFAULT_CONFIG as the class body builds it.
PristineDefaults ==
  [api_key |-> "", language |-> "zh-CN", theme |-> "light",
   model |-> "deepseek-chat", stream |-> TRUE, update_interval |-> 100,
   history |-> << >>, current_session |-> << >>, user |-> EmptyUser]

\* The values of DEFAULT_CONFIG that are mutable objects: dict.copy() is
\* shallow, so a copy shares them with the template.
MutableKeys == {"history", "current_session", "user"}

\* {**a, **b}
DictMerge(a, b) ==
  [k \in (DOMAIN a) \union (DOMAIN b) |-> IF k \in DOMAIN b THEN b[k] ELSE a[k]]

\* The merge loop of load_config over a parsed document.  "user" is the one
\* key whose default is a dict; a document's "user", when present, is a dict.
MergeLoaded(defaults, loaded) ==
  [key \in DOMAIN defaults |->
     IF key \in DOMAIN loaded
       THEN IF key = "user" THEN DictMerge(defaults[key], loaded[key])
                            ELSE loaded[key]
       ELSE defaults[key]]

\* load_config: the configuration it returns, and the keys whose value is
\* still the template's own object.  A file that is missing, or that fails
\* to parse, gives DEFAULT_CONFIG.copy().
\* file_doc is the configuration the file was written from; what the file
\* holds is the text json.dump made of it.
FileText == json_dump(file_doc)
Readable == file_state = "ok" /\ Parses(FileText)
LoadedConfig(defaults) ==
  IF Readable THEN MergeLoaded(defaults, json_load(FileText)) ELSE defaults
LoadedAliases ==
  IF Readable THEN MutableKeys \ (DOMAIN file_doc) ELSE MutableKeys

NoDoc == [none |-> TRUE]

\* save_config writes cfg, the configuration the caller has just built.  A
\* failed open leaves the file as it was; open(..., 'w') empties the file, so
\* a dump that fails leaves a truncated file.  The exception is caught and
\* printed.
save_config(cfg) ==
  LET written == disk_ok /\ Encodable(cfg) IN
  /\ last_write_ok' = written
  /\ IF written
       THEN file_state' = "ok" /\ file_doc' = cfg
       ELSE \/ ~disk_ok /\ UNCHANGED <<file_state, file_doc>>
            \/ file_state' = "corrupt" /\ file_doc' = NoDoc

\* An in-place change of config[key] shows through DEFAULT_CONFIG[key] when
\* the two are one object.
Through(key, value) ==
  IF key \in aliased THEN [DEFAULT_CONFIG EXCEPT ![key] = value]
                     ELSE DEFAULT_CONFIG

\* set(key, value) for a top-level key: config[key] is bound to value.
SetInMemory(key, value) ==
  /\ config' = [config EXCEPT ![key] = value]
  /\ aliased' = aliased \ {key}
  /\ UNCHANGED <<DEFAULT_CONFIG, file_state, file_doc, last_write_ok>>
set(key, value) ==
  /\ config' = [config EXCEPT ![key] = value]
  /\ aliased' = aliased \ {key}
  /\ save_config(config')
  /\ UNCHANGED DEFAULT_CONFIG

\* list.append(msg) on self.messages changes the list in place, so the
\* change shows wherever the same list object is held: in the history entry
\* msgs_entry, when there is one.
AppendInPlace(cfg, msg) ==
  [cfg EXCEPT !.history =
     [i \in DOMAIN cfg.history |->
        IF i = msgs_entry
          THEN [cfg.history[i] EXCEPT !.messages = Append(@, msg)]
          ELSE cfg.history[i]]]

\* The same append as the worker threads see it: ApiRequestThread keeps the
\* list it was given, not a copy.
AppendShared(msg) ==
  [w \in Workers |->
     IF w \in sharing THEN Append(wmessages[w], msg) ELSE wmessages[w]]

\* save_current_session(messages): config["current_session"] is bound to the
\* caller's list.  cfg is self.config as the caller's in-place changes have
\* left it.
SaveUnbound(cfg, msgs) ==
  /\ config' = cfg
  /\ UNCHANGED <<aliased, DEFAULT_CONFIG>>
  /\ save_config(config')
save_current_session(cfg, msgs) ==
  /\ config' = [cfg EXCEPT !.current_session = msgs]
  /\ aliased' = aliased \ {"current_session"}
  /\ save_config(config')
  /\ UNCHANGED DEFAULT_CONFIG

\* clear_current_session
clear_current_session ==
  /\ config' = [config EXCEPT !.current_session = << >>]
  /\ aliased' = aliased \ {"current_session"}
  /\ save_config(config')
  /\ UNCHANGED DEFAULT_CONFIG

\* set_user_info: the three item assignments change config["user"] in place
\* ("user" is always a key of config, so the guard's branch is never taken).
set_user_info(username, login_type, now) ==
  LET user == [username |-> username, login_type |-> login_type,
               last_login |-> now] IN
  /\ config' = [config EXCEPT !.user = user]
  /\ DEFAULT_CONFIG' = Through("user", user)
  /\ save_config(config')
  /\ UNCHANGED aliased

\* logout: config["user"] = DEFAULT_CONFIG["user"].copy()
DefaultUserCopy(defaults) == defaults.user
logout ==
  /\ config' = [config EXCEPT !.user = DefaultUserCopy(DEFAULT_CONFIG)]
  /\ aliased' = aliased \ {"user"}
  /\ save_config(config')
  /\ UNCHANGED DEFAULT_CONFIG

\* add_to_history
HistoryLimit == 50          \* entries kept
TitleLimit == 30            \* characters of the first message in a title
Dot == <<0, 5>>
Ellipsis == <<Dot, Dot, Dot>>           \* "..."
Untitled == << <<0, 6>> >>              \* the default title

\* text[:n]
Whole(text, n) == text
Prefix(text, n) == SubSeq(text, 1, IF Len(text) < n THEN Len(text) ELSE n)

\* The title: session[0]["content"] raises KeyError for a first message
\* without content, and the handler gives the default title.
Title(session) ==
  IF "content" \in DOMAIN session[1]
    THEN Prefix(session[1].content, TitleLimit)
         \o (IF Len(session[1].content) > TitleLimit THEN Ellipsis ELSE << >>)
    ELSE Untitled

\* list.insert(0, entry)
InsertLast(list, entry) == Append(list, entry)
InsertFirst(list, entry) == <<entry>> \o list

\* add_to_history(session) at time now.  The insert changes the list
\* config["history"] in place; the slice assignment binds config["history"]
\* to a new list and leaves the list that was grown as it is.
add_to_history(session, now) ==
  IF session = << >>
    THEN UNCHANGED savedvars
    ELSE LET entry == [title |-> Title(session), timestamp |-> now,
                       messages |-> session]
             grown == InsertFirst(config.history, entry)
             over == Len(grown) > HistoryLimit
         IN /\ config' = [config EXCEPT !.history =
                            IF over THEN SubSeq(grown, 1, HistoryLimit) ELSE grown]
            /\ DEFAULT_CONFIG' = Through("history", grown)
            /\ aliased' = IF over THEN aliased \ {"history"} ELSE aliased
            /\ save_config(config')

\* self.messages.append({"role": "assistant", "content": self.current_response})
\* followed by save_current_session(self.messages), attributed to exchange e.
CommitAssistant(e) ==
  /\ messages' = Append(messages, Message("assistant", current_response))
  /\ save_current_session(
       AppendInPlace(config, Message("assistant", current_response)), messages')
  /\ wmessages' = AppendShared(Message("assistant", current_response))
  /\ committed' = [committed EXCEPT ![e] = Append(@, current_response)]

\* Nothing was received: the conversation is left as it is.  (RollBack would
\* take the last message back.)
RollBack ==
  /\ messages' = SubSeq(messages, 1, Len(messages) - 1)
  /\ save_current_session(config, messages')
  /\ UNCHANGED <<wmessages, committed>>
NoCommit ==
  /\ UNCHANGED <<messages, wmessages, savedvars, committed>>

\* `if self.current_response:`
AnyText(text) == TRUE
NonEmpty(text) == text # << >>

----------------------------------------------------------------------------
\* DeepSeekClient

\* self.min_request_interval = 1.0 second; a tick is half a second.
min_request_interval == 2

\* time.time() when the program starts: seconds since 1970, so more than the
\* interval above the 0 a new client's last_request_time holds.
StartTime == min_request_interval

\* `if current_time - self.last_request_time < self.min_request_interval`
TooSoon(elapsed) == elapsed < min_request_interval

\* No call of chat() has been made; self.client is the first client object.
NoCalls ==
  /\ clock = StartTime
  /\ cur_client = 1
  /\ last_request_time = [c \in Clients |-> 0]
  /\ cpc = [k \in Calls |-> "none"]
  /\ cclient = [k \in Calls |-> 1]
  /\ cstream = [k \in Calls |-> FALSE]
  /\ current_time = [k \in Calls |-> 0]

\* No response has been received and none is being decoded.
NoStream ==
  /\ lines = << >>
  /\ lineno = 0
  /\ yielded = << >>
  /\ gen = "none"
  /\ response = [status |-> "none"]
  /\ posts = 0

----------------------------------------------------------------------------
\* ApiRequestThread.run

Started(w) == wpc[w] # "none"
\* A worker runs from start() until it has emitted request_finished.
Running(w) == wpc[w] \notin {"none", "done"}
nexch == Cardinality({w \in Workers : Started(w)})

\* Fragments one transport call can yield: one in non-streaming mode.
FragLimit(w) == IF wstream[w] THEN MaxFrags ELSE 1

\* `if self.stop_requested: break` of the streaming loop; the non-streaming
\* loop has no such test.
IgnoreStop(stream, stop) == FALSE
BreakOnStop(stream, stop) == stream /\ stop

\* finally: self.request_finished.emit()
NoFinally(q, w) == q
EmitFinished(q, w) == Post(q, Event("request_finished", w, 0))

\* except Exception as e: ...; self.error_occurred.emit(error_msg)
SwallowError(q, w) == q
EmitError(q, w) == Post(q, Event("error_occurred", w, 0))

\* The first next() runs chat() up to the request: the payload is built from
\* self.messages as the list is at that moment.  run() does not use the list
\* again, and its contents are not kept beyond this point.
ReadMessages(w) ==
  IF pulled[w] = 0
    THEN /\ wmessages' = [wmessages EXCEPT ![w] = << >>]
         /\ sharing' = sharing \ {w}
    ELSE UNCHANGED listvars

(* One step of run() is the code between two reads of state the main thread
   writes (stop_requested).  The emits in between only append to the main
   thread's event queue, so taking them together with the step before them
   changes no order the main thread can see. *)

\* next() on the generator client.chat(...) yields a fragment.
WorkerYield(w) ==
  /\ wpc[w] = "next"
  /\ pulled[w] < FragLimit(w)
  /\ pulled' = [pulled EXCEPT ![w] = @ + 1]
  /\ wpc' = [wpc EXCEPT ![w] = "loop"]
  /\ ReadMessages(w)
  /\ UNCHANGED <<appvars, wstream, stop_requested, queue, storevars, histvars,
                 ratevars>>

\* The generator ends (the [DONE] sentinel, the end of the response body, or
\* the single non-streaming yield was consumed);
\* finally: self.request_finished.emit()
WorkerEnd(w) ==
  /\ wpc[w] = "next"
  /\ wstream[w] \/ pulled[w] = 1
  /\ queue' = EmitFinished(queue, w)
  /\ wpc' = [wpc EXCEPT ![w] = "done"]
  /\ ReadMessages(w)
  /\ UNCHANGED <<appvars, wstream, stop_requested, pulled, storevars, histvars,
                 ratevars>>

\* The generator raises (rate limit, network, protocol);
\* except Exception: self.error_occurred.emit(error_msg)
\* finally: self.request_finished.emit()
WorkerRaise(w) ==
  /\ wpc[w] = "next"
  /\ wstream[w] \/ pulled[w] = 0
  /\ queue' = EmitFinished(EmitError(queue, w), w)
  /\ wpc' = [wpc EXCEPT ![w] = "done"]
  /\ failed' = [failed EXCEPT ![w] = TRUE]
  /\ ReadMessages(w)
  /\ UNCHANGED <<appvars, wstream, stop_requested, pulled, storevars,
                 emitted, delivered, observed, fin_handled, err_handled,
                 committed, stopped_at, late, ratevars>>

\* The loop body as it would be were the slot called in the worker thread.
DirectCall(w) ==
  /\ wpc[w] = "loop"
  /\ current_response' = Append(current_response, Fragment(w, pulled[w]))
  /\ wpc' = [wpc EXCEPT ![w] = "next"]
  /\ UNCHANGED <<streaming, messages, msgs_entry, api_thread, send_enabled,
                 stop_enabled, client, wstream, stop_requested, pulled,
                 listvars, queue, storevars, histvars, ratevars>>

\* The loop body with a fragment in hand: break (and the finally clause), or
\* self.response_received.emit(chunk) and back to next().
WorkerLoop(w) ==
  /\ wpc[w] = "loop"
  /\ observed' = [observed EXCEPT ![w] = @ \/ (wstream[w] /\ stop_requested[w])]
  /\ IF BreakOnStop(wstream[w], stop_requested[w])
       THEN /\ queue' = EmitFinished(queue, w)
            /\ wpc' = [wpc EXCEPT ![w] = "done"]
            /\ UNCHANGED emitted
       ELSE /\ queue' = Post(queue, Event("response_received", w, pulled[w]))
            /\ emitted' = [emitted EXCEPT ![w] = Append(@, Fragment(w, pulled[w]))]
            /\ wpc' = [wpc EXCEPT ![w] = "next"]
  /\ UNCHANGED <<appvars, wstream, stop_requested, pulled, storevars,
                 delivered, failed, fin_handled, err_handled, committed,
                 stopped_at, late, ratevars, listvars>>

----------------------------------------------------------------------------
\* DeepSeekApp: the handlers of the main thread

\* What self.input_entry.text() may hold: nothing, blanks, a text, a text
\* between blanks.
Inputs == {<< >>, <<" ">>, <<"a">>, <<" ", "a", " ">>}

\* str.strip(): the text between its first and its last non-blank character.
NoStrip(text) == text
strip(text) ==
  LET solid == {i \in DOMAIN text : text[i] # " "} IN
  IF solid = {} THEN << >>
  ELSE SubSeq(text, CHOOSE i \in solid : \A j \in solid : i <= j,
                    CHOOSE i \in solid : \A j \in solid : i >= j)

Vias == {"button", "return"}    \* send_button.clicked, input_entry.returnPressed
ApiKeys == {"", "key"}

\* send_message.  UserText(e) stands for the stripped text of the message
\* that starts exchange e.  The send button delivers clicked only while it is enabled;
\* returnPressed of the input field is delivered at any time.  Rebinding
\* self.api_thread leaves an earlier thread running, with its three signals
\* still connected to the same slots.
SendMessage(inp, via) ==
  /\ via = "button" => send_enabled
  /\ IF strip(inp) = << >> \/ client = "None"
       THEN UNCHANGED vars
       ELSE /\ nexch < MaxExchanges
            /\ LET e == nexch + 1 IN
               /\ messages' = Append(messages, Message("user", UserText(e)))
               /\ save_current_session(
                    AppendInPlace(config, Message("user", UserText(e))),
                    messages')
               /\ streaming' = TRUE
               /\ current_response' = << >>
               /\ stop_enabled' = TRUE
               /\ send_enabled' = FALSE
               /\ api_thread' = e
               /\ wpc' = [wpc EXCEPT ![e] = "next"]
               /\ wstream' = [wstream EXCEPT ![e] = config.stream]
               /\ stop_requested' = [stop_requested EXCEPT ![e] = FALSE]
               /\ wmessages' = [AppendShared(Message("user", UserText(e)))
                                  EXCEPT ![e] = messages']
               /\ sharing' = sharing \union {e}
            /\ UNCHANGED <<msgs_entry, client, pulled, queue, envvars, histvars,
                           ratevars>>

\* update_response, the slot of response_received.
UpdateResponse ==
  /\ queue # << >>
  /\ Head(queue).sig = "response_received"
  /\ LET w == Head(queue).w
         f == Fragment(w, Head(queue).i) IN
     /\ current_response' = Append(current_response, f)
     /\ delivered' = [delivered EXCEPT ![w] = Append(@, f)]
     /\ late' = [late EXCEPT ![w] = IF stop_requested[w] THEN Append(@, f) ELSE @]
  /\ queue' = Tail(queue)
  /\ UNCHANGED <<streaming, messages, msgs_entry, api_thread, send_enabled,
                 stop_enabled, client, workervars, storevars, emitted, observed,
                 failed, fin_handled, err_handled, committed, stopped_at,
                 ratevars, listvars>>

\* on_request_finished, the slot of request_finished.
OnRequestFinished ==
  /\ queue # << >>
  /\ Head(queue).sig = "request_finished"
  /\ LET w == Head(queue).w IN
     /\ streaming' = FALSE
     /\ stop_enabled' = FALSE
     /\ send_enabled' = TRUE
     /\ IF NonEmpty(current_response) THEN CommitAssistant(w) ELSE NoCommit
     /\ fin_handled' = [fin_handled EXCEPT ![w] = TRUE]
  /\ queue' = Tail(queue)
  /\ UNCHANGED <<current_response, msgs_entry, api_thread, client, workervars,
                 sharing, envvars, emitted, delivered, observed, failed,
                 err_handled, stopped_at, late, ratevars>>

\* on_api_error, the slot of error_occurred.
OnApiError ==
  /\ queue # << >>
  /\ Head(queue).sig = "error_occurred"
  /\ streaming' = FALSE
  /\ stop_enabled' = FALSE
  /\ send_enabled' = TRUE
  /\ err_handled' = [err_handled EXCEPT ![Head(queue).w] = @ + 1]
  /\ queue' = Tail(queue)
  /\ UNCHANGED <<current_response, messages, msgs_entry, api_thread, client,
                 workervars, storevars, emitted, delivered, observed, failed,
                 fin_handled, committed, stopped_at, late, ratevars, listvars>>

\* stop_streaming, the slot of stop_button.clicked, which the button delivers
\* only while it is enabled.
StopStreaming ==
  /\ stop_enabled
  /\ IF streaming /\ api_thread # NoThread
       THEN /\ stop_requested' = [stop_requested EXCEPT ![api_thread] = TRUE]
            /\ streaming' = FALSE
            /\ stop_enabled' = FALSE
            /\ send_enabled' = TRUE
            /\ IF NonEmpty(current_response)
                 THEN CommitAssistant(api_thread) ELSE NoCommit
            /\ stopped_at' = [stopped_at EXCEPT
                                ![api_thread] = Len(delivered[api_thread])]
            /\ UNCHANGED <<current_response, msgs_entry, api_thread, client,
                           wpc, wstream, pulled, sharing, queue, envvars,
                           emitted, delivered, observed, failed, fin_handled,
                           err_handled, late, ratevars>>
       ELSE UNCHANGED vars

\* clear_conversation (the clear button and the new-chat menu entry).
ClearConversation ==
  /\ messages' = << >>
  /\ msgs_entry' = NoEntry
  /\ sharing' = {}
  /\ clear_current_session
  /\ UNCHANGED <<streaming, current_response, api_thread, send_enabled,
                 stop_enabled, client, workervars, wmessages, queue, envvars,
                 histvars, ratevars>>

\* SettingsWindow.save_settings (one set() per field, each of which saves;
\* the fields other than the key and the stream flag are left as shown) and
\* then on_settings_saved, which replaces the client when a key is stored.
OnSettingsSaved(key, stream) ==
  /\ config' = [config EXCEPT !.api_key = key, !.stream = stream]
  /\ save_config(config')
  /\ client' = IF config'.api_key # "" THEN "client" ELSE client
  /\ UNCHANGED <<streaming, current_response, messages, msgs_entry, api_thread,
                 send_enabled, stop_enabled, workervars, queue, DEFAULT_CONFIG,
                 aliased, envvars, histvars, ratevars, listvars>>

----------------------------------------------------------------------------
\* DeepSeekApp.__init__ and initialize_main_app in a process whose config.json
\* was written by an earlier run in which the user logged in; the stored
\* session is empty.
LoggedInUser == [username |-> "alice", login_type |-> "manual", last_login |-> "t1"]

Init ==
  /\ streaming = FALSE
  /\ current_response = << >>
  /\ messages = << >>
  /\ msgs_entry = NoEntry
  /\ api_thread = NoThread
  /\ send_enabled = TRUE
  /\ stop_enabled = FALSE
  /\ DEFAULT_CONFIG = PristineDefaults
  /\ \E key \in ApiKeys, stream \in BOOLEAN :
       file_doc = [PristineDefaults EXCEPT !.api_key = key, !.stream = stream,
                                          !.user = LoggedInUser]
  /\ file_state = "ok"
  /\ config = LoadedConfig(DEFAULT_CONFIG)
  /\ last_write_ok = TRUE
  /\ aliased = LoadedAliases
  /\ disk_ok = TRUE
  /\ last_op = "load_config"
  /\ client = IF config.api_key # "" THEN "client" ELSE "None"
  /\ wpc = [w \in Workers |-> "none"]
  /\ wstream = [w \in Workers |-> FALSE]
  /\ stop_requested = [w \in Workers |-> FALSE]
  /\ pulled = [w \in Workers |-> 0]
  /\ wmessages = [w \in Workers |-> << >>]
  /\ sharing = {}
  /\ queue = << >>
  /\ emitted = [w \in Workers |-> << >>]
  /\ delivered = [w \in Workers |-> << >>]
  /\ observed = [w \in Workers |-> FALSE]
  /\ failed = [w \in Workers |-> FALSE]
  /\ fin_handled = [w \in Workers |-> FALSE]
  /\ err_handled = [w \in Workers |-> 0]
  /\ committed = [w \in Workers |-> << >>]
  /\ stopped_at = [w \in Workers |-> -1]
  /\ late = [w \in Workers |-> << >>]
  /\ NoCalls
  /\ NoStream

Next ==
  \/ \E inp \in Inputs, via \in Vias : SendMessage(inp, via)
  \/ UpdateResponse
  \/ OnRequestFinished
  \/ OnApiError
  \/ StopStreaming
  \/ ClearConversation
  \/ \E key \in ApiKeys, stream \in BOOLEAN : OnSettingsSaved(key, stream)
  \/ \E w \in Workers : WorkerYield(w)
  \/ \E w \in Workers : WorkerEnd(w)
  \/ \E w \in Workers : WorkerRaise(w)
  \/ \E w \in Workers : WorkerLoop(w)

Spec == Init /\ [][Next]_vars

\* Scheduling: a started QThread keeps running until run() returns (the
\* transport call terminates: it yields at most FragLimit fragments, then
\* ends or raises), and the main thread's event loop keeps taking the events
\* of its queue.  Nothing obliges the user to act.
Fairness ==
  /\ \A w \in Workers :
       WF_vars(WorkerYield(w) \/ WorkerEnd(w) \/ WorkerRaise(w) \/ WorkerLoop(w))
  /\ WF_vars(UpdateResponse \/ OnRequestFinished \/ OnApiError)

\* The runs in which the settings stay as they were stored (either mode, with
\* or without a key).
NextLive ==
  \/ \E inp \in Inputs, via \in Vias : SendMessage(inp, via)
  \/ UpdateResponse
  \/ OnRequestFinished
  \/ OnApiError
  \/ StopStreaming
  \/ ClearConversation
  \/ \E w \in Workers : WorkerYield(w)
  \/ \E w \in Workers : WorkerEnd(w)
  \/ \E w \in Workers : WorkerRaise(w)
  \/ \E w \in Workers : WorkerLoop(w)

SpecLive == Init /\ [][NextLive]_vars /\ Fairness

----------------------------------------------------------------------------
(* The store on its own: one ConfigManager, its methods called in any order,
   on a disk that may refuse writes, in a process that may construct the
   manager again (DeepSeekApp.logout runs __init__ a second time) or be
   started anew.  The pipeline's variables stay as Init leaves them. *)

pipelinevars == <<appvars, workervars, listvars, queue, histvars, ratevars>>

Usernames == {"alice", "bob"}
LoginTypes == {"manual", "windows", "longxing"}
Times == {"t1", "t2"}           \* datetime.now().isoformat()

Restrict(f, S) == [k \in S |-> f[k]]
FullDoc == [PristineDefaults EXCEPT !.api_key = "key", !.user = LoggedInUser]
\* Documents config.json may hold when the program starts: written by an
\* earlier run, or lacking keys, or with a user object lacking sub-keys.
InitDocs ==
  { FullDoc,
    Restrict(FullDoc, (DOMAIN FullDoc) \ {"user", "theme"}),
    [FullDoc EXCEPT !.user = [username |-> "bob"]] }

\* ConfigManager(): self.config = self.load_config()
Construct ==
  /\ config' = LoadedConfig(DEFAULT_CONFIG)
  /\ aliased' = LoadedAliases
  /\ last_op' = "load_config"
  /\ UNCHANGED <<DEFAULT_CONFIG, file_state, file_doc, last_write_ok, disk_ok,
                 pipelinevars>>

\* The program is started again: the class body rebuilds DEFAULT_CONFIG.
ProcessStart ==
  /\ DEFAULT_CONFIG' = PristineDefaults
  /\ config' = LoadedConfig(PristineDefaults)
  /\ aliased' = LoadedAliases
  /\ last_op' = "load_config"
  /\ UNCHANGED <<file_state, file_doc, last_write_ok, disk_ok, pipelinevars>>

SetUserInfo(username, login_type, now) ==
  /\ set_user_info(username, login_type, now)
  /\ last_op' = "set_user_info"
  /\ UNCHANGED <<disk_ok, pipelinevars>>

Logout ==
  /\ logout
  /\ last_op' = "logout"
  /\ UNCHANGED <<disk_ok, pipelinevars>>

\* The disk starts or stops refusing writes.
DiskChange ==
  /\ disk_ok' = ~disk_ok
  /\ UNCHANGED <<savedvars, last_op, pipelinevars>>

InitStore ==
  /\ streaming = FALSE
  /\ current_response = << >>
  /\ messages = << >>
  /\ msgs_entry = NoEntry
  /\ api_thread = NoThread
  /\ send_enabled = TRUE
  /\ stop_enabled = FALSE
  /\ client = "None"
  /\ wpc = [w \in Workers |-> "none"]
  /\ wstream = [w \in Workers |-> FALSE]
  /\ stop_requested = [w \in Workers |-> FALSE]
  /\ pulled = [w \in Workers |-> 0]
  /\ wmessages = [w \in Workers |-> << >>]
  /\ sharing = {}
  /\ queue = << >>
  /\ emitted = [w \in Workers |-> << >>]
  /\ delivered = [w \in Workers |-> << >>]
  /\ observed = [w \in Workers |-> FALSE]
  /\ failed = [w \in Workers |-> FALSE]
  /\ fin_handled = [w \in Workers |-> FALSE]
  /\ err_handled = [w \in Workers |-> 0]
  /\ committed = [w \in Workers |-> << >>]
  /\ stopped_at = [w \in Workers |-> -1]
  /\ late = [w \in Workers |-> << >>]
  /\ NoCalls
  /\ NoStream
  /\ DEFAULT_CONFIG = PristineDefaults
  /\ \/ file_state = "absent" /\ file_doc = NoDoc
     \/ file_state = "corrupt" /\ file_doc = NoDoc
     \/ file_state = "ok" /\ file_doc \in InitDocs
  /\ config = LoadedConfig(DEFAULT_CONFIG)
  /\ aliased = LoadedAliases
  /\ disk_ok = TRUE
  /\ last_write_ok = TRUE
  /\ last_op = "load_config"

NextStore ==
  \/ Construct
  \/ ProcessStart
  \/ \E u \in Usernames, t \in LoginTypes, now \in Times : SetUserInfo(u, t, now)
  \/ Logout
  \/ DiskChange

SpecStore == InitStore /\ [][NextStore]_vars

----------------------------------------------------------------------------
(* The pipeline together with the history window, in a process whose
   config.json holds archived conversations.  HistoryWindow is a modal dialog
   opened from the menu: while it is open the queued signals of the workers
   are still delivered, and its two buttons act when the user clicks them. *)

\* The text of message j of the conversation archived as entry k.
ArchivedText(k, j) == << <<0 - k, j>> >>
HistoryEntry(k) ==
  [title |-> ArchivedText(k, 1), timestamp |-> k,
   messages |-> << Message("user", ArchivedText(k, 1)),
                   Message("assistant", ArchivedText(k, 2)) >>]
StoredHistory == << HistoryEntry(1) >>

\* history_selected = pyqtSignal(list): emit converts the list to a
\* QVariantList and the slot is called with a new list built from it, so the
\* slot's argument has the entry's contents but is no entry's object.
SameObject(index) == index
history_selected(index) == NoEntry

RemoveAt(seq, index) ==
  [j \in 1..(Len(seq) - 1) |-> IF j < index THEN seq[j] ELSE seq[j + 1]]

\* HistoryWindow.load_history on the selected row, then the connected slot
\* load_selected_history.  With an empty history the only row is the
\* "no history" placeholder, for which the index test fails.
LoadSelectedHistory(index) ==
  /\ index <= Len(config.history) \/ (index = 1 /\ config.history = << >>)
  /\ IF index <= Len(config.history)
       THEN /\ messages' = config.history[index].messages
            /\ msgs_entry' = history_selected(index)
            /\ save_current_session(config, messages')
            /\ sharing' = {}
            /\ UNCHANGED <<streaming, current_response, api_thread,
                           send_enabled, stop_enabled, client, workervars,
                           wmessages, queue, envvars, histvars, ratevars>>
       ELSE UNCHANGED vars

\* HistoryWindow.delete_history on the selected row: del history[index] on
\* the list config["history"] itself, then save_config.
DeleteHistory(index) ==
  /\ index <= Len(config.history) \/ (index = 1 /\ config.history = << >>)
  /\ IF index <= Len(config.history)
       THEN /\ config' = [config EXCEPT !.history = RemoveAt(@, index)]
            /\ DEFAULT_CONFIG' = Through("history", config'.history)
            /\ save_config(config')
            /\ msgs_entry' = IF index = msgs_entry THEN NoEntry
                             ELSE IF index < msgs_entry THEN msgs_entry - 1
                             ELSE msgs_entry
            /\ UNCHANGED <<streaming, current_response, messages, api_thread,
                           send_enabled, stop_enabled, client, workervars,
                           queue, aliased, envvars, histvars, ratevars,
                           listvars>>
       ELSE UNCHANGED vars

Rows == 1..Len(StoredHistory)

InitHistory ==
  /\ streaming = FALSE
  /\ current_response = << >>
  /\ messages = << >>
  /\ msgs_entry = NoEntry
  /\ api_thread = NoThread
  /\ send_enabled = TRUE
  /\ stop_enabled = FALSE
  /\ DEFAULT_CONFIG = PristineDefaults
  /\ file_doc = [PristineDefaults EXCEPT !.api_key = "key", !.user = LoggedInUser,
                                        !.history = StoredHistory]
  /\ file_state = "ok"
  /\ config = LoadedConfig(DEFAULT_CONFIG)
  /\ last_write_ok = TRUE
  /\ aliased = LoadedAliases
  /\ disk_ok = TRUE
  /\ last_op = "load_config"
  /\ client = "client"
  /\ wpc = [w \in Workers |-> "none"]
  /\ wstream = [w \in Workers |-> FALSE]
  /\ stop_requested = [w \in Workers |-> FALSE]
  /\ pulled = [w \in Workers |-> 0]
  /\ wmessages = [w \in Workers |-> << >>]
  /\ sharing = {}
  /\ queue = << >>
  /\ emitted = [w \in Workers |-> << >>]
  /\ delivered = [w \in Workers |-> << >>]
  /\ observed = [w \in Workers |-> FALSE]
  /\ failed = [w \in Workers |-> FALSE]
  /\ fin_handled = [w \in Workers |-> FALSE]
  /\ err_handled = [w \in Workers |-> 0]
  /\ committed = [w \in Workers |-> << >>]
  /\ stopped_at = [w \in Workers |-> -1]
  /\ late = [w \in Workers |-> << >>]
  /\ NoCalls
  /\ NoStream

NextHistory ==
  \/ \E inp \in Inputs, via \in Vias : SendMessage(inp, via)
  \/ UpdateResponse
  \/ OnRequestFinished
  \/ OnApiError
  \/ StopStreaming
  \/ ClearConversation
  \/ \E index \in Rows : LoadSelectedHistory(index)
  \/ \E index \in Rows : DeleteHistory(index)
  \/ \E w \in Workers : WorkerYield(w)
  \/ \E w \in Workers : WorkerEnd(w)
  \/ \E w \in Workers : WorkerRaise(w)
  \/ \E w \in Workers : WorkerLoop(w)

SpecHistory == InitHistory /\ [][NextHistory]_vars

----------------------------------------------------------------------------
(* The archive of conversations: one ConfigManager whose add_to_history is
   called MaxAdds times at most, whose newest entry may be deleted from the
   history window while there are MaxRows entries at most, and which may be constructed again in the same process.
   The disk accepts every write of a run or refuses every one. *)

MaxAdds == 52
MaxRows == 2                \* the longest list an entry is deleted from

\* The conversation that is archived, and the empty one.
Archived == << Message("user", ArchivedText(1, 1)) >>
Conversations == { << >>, Archived }

\* datetime.now(): later than every timestamp there is.
Stamps(list) == {list[i].timestamp : i \in DOMAIN list}
Latest(S) == IF S = {} THEN 0 ELSE CHOOSE n \in S : \A m \in S : m <= n
Now ==
  1 + Latest(Stamps(config.history) \union Stamps(DEFAULT_CONFIG.history)
             \union (IF file_state = "ok" THEN Stamps(file_doc.history) ELSE {}))

AddToHistory(session, now) ==
  /\ add_to_history(session, now)
  /\ last_op' = "add_to_history"
  /\ UNCHANGED <<disk_ok, pipelinevars>>

\* The pipeline before the first message, in a process without an API key.
IdleApp ==
  /\ streaming = FALSE
  /\ current_response = << >>
  /\ messages = << >>
  /\ msgs_entry = NoEntry
  /\ api_thread = NoThread
  /\ send_enabled = TRUE
  /\ stop_enabled = FALSE
  /\ client = "None"
  /\ wpc = [w \in Workers |-> "none"]
  /\ wstream = [w \in Workers |-> FALSE]
  /\ stop_requested = [w \in Workers |-> FALSE]
  /\ pulled = [w \in Workers |-> 0]
  /\ wmessages = [w \in Workers |-> << >>]
  /\ sharing = {}
  /\ queue = << >>
  /\ emitted = [w \in Workers |-> << >>]
  /\ delivered = [w \in Workers |-> << >>]
  /\ observed = [w \in Workers |-> FALSE]
  /\ failed = [w \in Workers |-> FALSE]
  /\ fin_handled = [w \in Workers |-> FALSE]
  /\ err_handled = [w \in Workers |-> 0]
  /\ committed = [w \in Workers |-> << >>]
  /\ stopped_at = [w \in Workers |-> -1]
  /\ late = [w \in Workers |-> << >>]
  /\ NoCalls

InitArchive ==
  /\ IdleApp
  /\ NoStream
  /\ DEFAULT_CONFIG = PristineDefaults
  /\ file_state = "absent"
  /\ file_doc = NoDoc
  /\ config = LoadedConfig(DEFAULT_CONFIG)
  /\ aliased = LoadedAliases
  /\ disk_ok \in BOOLEAN
  /\ last_write_ok = TRUE
  /\ last_op = "load_config"

NextArchive ==
  \/ \E session \in Conversations : Now <= MaxAdds /\ AddToHistory(session, Now)
  \/ \E index \in Rows : Len(config.history) <= MaxRows /\ DeleteHistory(index)
  \/ Construct

SpecArchive == InitArchive /\ [][NextArchive]_vars

----------------------------------------------------------------------------
(* The store and its file: every method that changes the configuration,
   called in any order, on a disk that may start and stop refusing writes,
   with the manager constructed again at any time.  At most MaxArchived
   conversations are archived. *)

MaxArchived == 1

Themes == {"light", "dark"}

\* Two conversations: one whose text json.dump has to escape, and one whose
\* text cannot be encoded.
Plain == << Message("user", <<Letter, Quote>>), Message("assistant", <<Letter>>) >>
Unwritable == << Message("user", <<Letter, Surrogate>>) >>

Set(key, value) ==
  /\ set(key, value)
  /\ last_op' = "set"
  /\ UNCHANGED <<disk_ok, pipelinevars>>

SaveCurrentSession(msgs) ==
  /\ save_current_session(config, msgs)
  /\ last_op' = "save_current_session"
  /\ UNCHANGED <<disk_ok, pipelinevars>>

ClearCurrentSession ==
  /\ clear_current_session
  /\ last_op' = "clear_current_session"
  /\ UNCHANGED <<disk_ok, pipelinevars>>

InitSave ==
  /\ IdleApp
  /\ NoStream
  /\ DEFAULT_CONFIG = PristineDefaults
  /\ \/ file_state = "absent" /\ file_doc = NoDoc
     \/ file_state = "ok" /\ file_doc = FullDoc
  /\ config = LoadedConfig(DEFAULT_CONFIG)
  /\ aliased = LoadedAliases
  /\ disk_ok = TRUE
  /\ last_write_ok = TRUE
  /\ last_op = "load_config"

NextSave ==
  \/ Construct
  \/ \E value \in Themes : Set("theme", value)
  \/ \E session \in Conversations :
       Len(config.history) < MaxArchived /\ AddToHistory(session, "t1")
  \/ ClearCurrentSession
  \/ \E msgs \in {Plain, Unwritable} : SaveCurrentSession(msgs)
  \/ SetUserInfo("alice", "manual", "t1")
  \/ Logout
  \/ DiskChange

SpecSave == InitSave /\ [][NextSave]_vars

----------------------------------------------------------------------------
(* The current session and the file: save_current_session with every text
   of MaxText characters at most over a letter, a quote and a backslash,
   clear_current_session, and the manager constructed again. *)

MaxText == 2

Alphabet == {Letter, Quote, Backslash}
SessionTexts ==
  UNION {[1..n -> Alphabet] : n \in 0..MaxText} \union {<<Letter, Surrogate>>}
Sessions == {<< >>} \union
  {<<Message("user", text), Message("assistant", <<Letter>>)>> : text \in SessionTexts}

NextSession ==
  \/ Construct
  \/ ClearCurrentSession
  \/ \E msgs \in Sessions : SaveCurrentSession(msgs)
  \/ DiskChange

SpecSession == InitSave /\ [][NextSession]_vars

----------------------------------------------------------------------------
(* The titles of archived conversations: add_to_history with first messages
   whose contents are about as long as the title limit, MaxTitled entries at
   most. *)

MaxTitled == 2

LongText(n) == [i \in 1..n |-> <<i, 0>>]
TitleLengths == {0, 1, TitleLimit, TitleLimit + 1, TitleLimit + 3}
TitledSessions == {<< >>, <<[role |-> "user"]>>} \union
  {<<Message("user", LongText(n))>> : n \in TitleLengths}

NextTitle ==
  \/ Construct
  \/ \E session \in TitledSessions :
       Len(config.history) < MaxTitled /\ AddToHistory(session, Now)

SpecTitle == InitArchive /\ [][NextTitle]_vars

----------------------------------------------------------------------------
(* The rate limit of DeepSeekClient.chat.  Every accepted send_message makes
   an ApiRequestThread on the client object self.client is bound to at that
   moment, and the thread's run() starts the body of chat() at its first
   next().  send_message does not wait for an earlier thread, so the bodies
   of several calls may run at once; a thread may be preempted between any
   two lines.  The rest of the program stays as Init leaves it. *)

restvars == <<appvars, workervars, listvars, queue, storevars, histvars,
              streamvars>>

\* send_message: ApiRequestThread(self.client, ..., stream).start(), whose
\* run() calls self.client.chat(...).  Calls are numbered in start order.
StartCall(k, stream) ==
  /\ cpc[k] = "none"
  /\ \A j \in Calls : j < k => cpc[j] # "none"
  /\ cpc' = [cpc EXCEPT ![k] = "time"]
  /\ cclient' = [cclient EXCEPT ![k] = cur_client]
  /\ cstream' = [cstream EXCEPT ![k] = stream]
  /\ UNCHANGED <<clock, cur_client, last_request_time, current_time, restvars>>

\* current_time = time.time()
ReadTime(k) ==
  /\ cpc[k] = "time"
  /\ current_time' = [current_time EXCEPT ![k] = clock]
  /\ cpc' = [cpc EXCEPT ![k] = "check"]
  /\ UNCHANGED <<clock, cur_client, last_request_time, cclient, cstream, restvars>>

\* The interval test as it would be were the time stored before the test.
StampThenCheck(k) ==
  /\ cpc[k] = "check"
  /\ last_request_time' = [last_request_time EXCEPT ![cclient[k]] = current_time[k]]
  /\ cpc' = [cpc EXCEPT ![k] =
               IF TooSoon(current_time[k] - last_request_time[cclient[k]])
                 THEN "raised" ELSE "assign"]
  /\ UNCHANGED <<clock, cur_client, cclient, cstream, current_time, restvars>>

\* The interval test: raise Exception("Rate limit exceeded"), or go on.
CheckInterval(k) ==
  /\ cpc[k] = "check"
  /\ cpc' = [cpc EXCEPT ![k] =
               IF TooSoon(current_time[k] - last_request_time[cclient[k]])
                 THEN "raised" ELSE "assign"]
  /\ UNCHANGED <<clock, cur_client, last_request_time, cclient, cstream,
                 current_time, restvars>>

\* self.last_request_time = current_time
AssignTime(k) ==
  /\ cpc[k] = "assign"
  /\ last_request_time' = [last_request_time EXCEPT ![cclient[k]] = current_time[k]]
  /\ cpc' = [cpc EXCEPT ![k] = "post"]
  /\ UNCHANGED <<clock, cur_client, cclient, cstream, current_time, restvars>>

\* requests.post(...), with stream=True in streaming mode.
HttpPost(k) ==
  /\ cpc[k] = "post"
  /\ cpc' = [cpc EXCEPT ![k] = "posted"]
  /\ UNCHANGED <<clock, cur_client, last_request_time, cclient, cstream,
                 current_time, restvars>>

\* on_settings_saved with a key stored: self.client = DeepSeekClient(api_key).
NewClient ==
  /\ cur_client < MaxClients
  /\ cur_client' = cur_client + 1
  /\ UNCHANGED <<clock, last_request_time, cpc, cclient, cstream, current_time,
                 restvars>>

\* Half a second passes.
Tick ==
  /\ clock < StartTime + MaxTime
  /\ clock' = clock + 1
  /\ UNCHANGED <<cur_client, last_request_time, cpc, cclient, cstream,
                 current_time, restvars>>

NextRate ==
  \/ \E k \in Calls, stream \in BOOLEAN : StartCall(k, stream)
  \/ \E k \in Calls : ReadTime(k)
  \/ \E k \in Calls : CheckInterval(k)
  \/ \E k \in Calls : AssignTime(k)
  \/ \E k \in Calls : HttpPost(k)
  \/ NewClient
  \/ Tick

\* A process started with a key stored, so that self.client is set.
InitRate == Init /\ config.api_key = "key" /\ config.stream

SpecRate == InitRate /\ [][NextRate]_vars

----------------------------------------------------------------------------
(* DeepSeekClient.process_stream on one streaming response.  A line is a
   sequence of pieces: the prefix "data:", a blank, and a payload that is
   the end marker, a JSON document or something that is no JSON.  One step
   is one turn of the for loop. *)

MaxLines == 3

DataPrefix == "data:"
DoneMark == "[DONE]"

\* json.loads on a payload: the documents a record may carry, and what they
\* parse to.  Anything else raises JSONDecodeError.
Null == [type |-> "null"]
Delta(content) ==
  [type |-> "object", choices |-> << [delta |-> [content |-> content]] >>]
JsonDocs ==
  [doc \in {"{delta: a}", "{delta: b}", "{delta: }", "{choices: []}", "{error}",
            "null"} |->
     CASE doc = "{delta: a}" -> Delta(<<"a">>)
       [] doc = "{delta: b}" -> Delta(<<"b">>)
       [] doc = "{delta: }" -> Delta(<< >>)
       [] doc = "{choices: []}" -> [type |-> "object", choices |-> << >>]
       [] doc = "{error}" -> [type |-> "object", error |-> 1]
       [] doc = "null" -> Null]
IsJson(data_str) == Len(data_str) = 1 /\ data_str[1] \in DOMAIN JsonDocs
json_loads(data_str) == JsonDocs[data_str[1]]

\* The lines of a response: records with each payload, the end marker,
\* a record and an end marker without the blank after the prefix, an empty
\* line and a comment line.
Payloads == (DOMAIN JsonDocs) \union {"{oops", DoneMark}
Lines ==
  {<<DataPrefix, " ", payload>> : payload \in Payloads}
  \union {<<DataPrefix, "{delta: a}">>, <<DataPrefix, DoneMark>>, << >>,
          <<": keep-alive">>}
Streams == UNION {[1..n -> Lines] : n \in 0..MaxLines}

\* decoded_chunk.startswith("data:")
StartsWith(chunk, prefix) == chunk # << >> /\ chunk[1] = prefix

\* decoded_chunk.replace("data: ", "", 1): the first place where the prefix
\* is followed by a blank is cut out; without such a place nothing changes.
ReplaceFirst(chunk) ==
  LET at == {i \in 1..(Len(chunk) - 1) :
               chunk[i] = DataPrefix /\ chunk[i + 1] = " "} IN
  IF at = {} THEN chunk
  ELSE LET i == CHOOSE k \in at : \A m \in at : k <= m IN
       SubSeq(chunk, 1, i - 1) \o SubSeq(chunk, i + 2, Len(chunk))

\* data_str == "[DONE]"
NeverDone(data_str) == FALSE
IsDone(data_str) == data_str = <<DoneMark>>

\* One turn of the loop on the next line.  A TypeError of the membership
\* test on a document that is no object is not caught by
\* `except json.JSONDecodeError` and leaves the generator.
Iterate ==
  /\ gen = "running"
  /\ lineno < Len(lines)
  /\ lineno' = lineno + 1
  /\ LET chunk == lines[lineno + 1]
         data_str == strip(ReplaceFirst(chunk)) IN
     IF chunk = << >> \/ ~StartsWith(chunk, DataPrefix)
       THEN UNCHANGED <<yielded, gen>>
     ELSE IF IsDone(data_str)
       THEN gen' = "returned" /\ UNCHANGED yielded
     ELSE IF ~IsJson(data_str)
       THEN UNCHANGED <<yielded, gen>>
     ELSE LET data == json_loads(data_str) IN
          IF data.type # "object"
            THEN gen' = "raised" /\ UNCHANGED yielded
          ELSE IF "choices" \in DOMAIN data /\ Len(data.choices) > 0
                  /\ data.choices[1].delta.content # << >>
            THEN /\ yielded' = Append(yielded, data.choices[1].delta.content)
                 /\ UNCHANGED gen
          ELSE UNCHANGED <<yielded, gen>>
  /\ UNCHANGED <<lines, response, posts, clock, cur_client, last_request_time,
                 cpc, cclient, cstream, current_time, appvars, workervars,
                 listvars, queue, storevars, histvars>>

\* iter_lines() is exhausted: the loop ends and the generator returns.
Exhaust ==
  /\ gen = "running"
  /\ lineno = Len(lines)
  /\ gen' = "returned"
  /\ UNCHANGED <<lines, lineno, yielded, response, posts, clock, cur_client,
                 last_request_time, cpc, cclient, cstream, current_time,
                 appvars, workervars, listvars, queue, storevars, histvars>>

InitStream ==
  /\ IdleApp
  /\ DEFAULT_CONFIG = PristineDefaults
  /\ file_state = "ok"
  /\ file_doc = FullDoc
  /\ config = LoadedConfig(DEFAULT_CONFIG)
  /\ aliased = LoadedAliases
  /\ disk_ok = TRUE
  /\ last_write_ok = TRUE
  /\ last_op = "load_config"
  /\ lines \in Streams
  /\ lineno = 0
  /\ yielded = << >>
  /\ gen = "running"
  /\ response = [status |-> "none"]
  /\ posts = 0

NextStream == Iterate \/ Exhaust

SpecStream == InitStream /\ [][NextStream]_vars

----------------------------------------------------------------------------
(* DeepSeekClient.chat in non-streaming mode: the else branch of the try
   block.  One call, the first, is followed from its start through the
   interval test, the request with raise_for_status(), response.json() and
   the single yield to the end of the generator.  The response is whatever the
   server sends: a status, and a body that is a JSON document or not. *)

\* response.json() on a body: the documents a reply may be, and what they
\* parse to.  Anything else raises JSONDecodeError.
ReplyDocs ==
  LET Reply(content) ==
        [type |-> "object",
         choices |-> << [message |-> [role |-> <<"assistant">>,
                                      content |-> content]] >>]
  IN
  [doc \in {"{message: a}", "{message: ab}", "{message: }", "{message: null}",
            "{choices: []}", "{error}", "null"} |->
     CASE doc = "{message: a}" -> Reply(<<"a">>)
       [] doc = "{message: ab}" -> Reply(<<"a", "b">>)
       [] doc = "{message: }" -> Reply(<< >>)
       [] doc = "{message: null}" -> Reply(Null)
       [] doc = "{choices: []}" -> [type |-> "object", choices |-> << >>]
       [] doc = "{error}" -> [type |-> "object", error |-> 1]
       [] doc = "null" -> Null]

\* data["choices"][0]["message"]: the role or the content of it.
Role(message) == message.role
Content(message) == message.content

\* response = requests.post(self.API_URL, headers=self.headers, json=payload)
\* and response.raise_for_status().  The server answers, or the request fails
\* and RequestException is raised; raise_for_status() raises HTTPError, a
\* RequestException, on 4xx and 5xx.  The except clause turns both into
\* ConnectionError.
PostRequest(k, answer) ==
  /\ cpc[k] = "post"
  /\ ~cstream[k]
  /\ posts' = posts + 1
  /\ \/ /\ response' = answer
        /\ cpc' = [cpc EXCEPT ![k] =
                     IF answer.status = "ok" THEN "json" ELSE "raised"]
     \/ cpc' = [cpc EXCEPT ![k] = "raised"] /\ UNCHANGED response
  /\ UNCHANGED <<lines, lineno, yielded, gen, clock, cur_client,
                 last_request_time, cclient, cstream, current_time, appvars,
                 workervars, listvars, queue, storevars, histvars>>

\* data = response.json(); yield data["choices"][0]["message"]["content"].
\* A body that is no JSON raises in json(); a document that is no object
\* raises TypeError at the first subscript; a missing key or an empty list
\* raises KeyError or IndexError, turned into ValueError.  Otherwise the
\* generator is suspended at the yield with the content handed out.
YieldContent(k) ==
  /\ cpc[k] = "json"
  /\ IF response.body \notin DOMAIN ReplyDocs
       THEN cpc' = [cpc EXCEPT ![k] = "raised"] /\ UNCHANGED yielded
     ELSE LET data == ReplyDocs[response.body] IN
          IF \/ data.type # "object"
             \/ "choices" \notin DOMAIN data
             \/ Len(data.choices) = 0
            THEN cpc' = [cpc EXCEPT ![k] = "raised"] /\ UNCHANGED yielded
          ELSE /\ yielded' = Append(yielded, Content(data.choices[1].message))
               /\ cpc' = [cpc EXCEPT ![k] = "yielded"]
  /\ UNCHANGED <<lines, lineno, gen, response, posts, clock, cur_client,
                 last_request_time, cclient, cstream, current_time, appvars,
                 workervars, listvars, queue, storevars, histvars>>

\* next() on the suspended generator: the else branch and the try block are
\* over, chat() returns and the caller's for loop ends.
Resume(k) ==
  /\ cpc[k] = "yielded"
  /\ cpc' = [cpc EXCEPT ![k] = "returned"]
  /\ UNCHANGED <<clock, cur_client, last_request_time, cclient, cstream,
                 current_time, restvars>>

\* The first call, made with stream=False, and the answers it may get.
NextReply ==
  \/ StartCall(1, FALSE)
  \/ ReadTime(1)
  \/ CheckInterval(1)
  \/ AssignTime(1)
  \/ \E answer \in [status : {"ok", "error"},
                    body : (DOMAIN ReplyDocs) \union {"<html>"}] :
       PostRequest(1, answer)
  \/ YieldContent(1)
  \/ Resume(1)
  \/ Tick

\* A process started with a key stored and streaming switched off.
InitReply == Init /\ config.api_key = "key" /\ ~config.stream

SpecReply == InitReply /\ [][NextReply]_vars

----------------------------------------------------------------------------
\* Properties

Range(f) == {f[i] : i \in DOMAIN f}
Idle == ~streaming /\ send_enabled /\ ~stop_enabled

\* The fragments of worker w that wait in the event queue, in queue order.
IsResponseOf(w, ev) == ev.sig = "response_received" /\ ev.w = w
QueuedFrags(w) ==
  LET evs == SelectSeq(queue, LAMBDA ev : IsResponseOf(w, ev))
  IN [i \in 1..Len(evs) |-> Fragment(w, evs[i].i)]

\* Every token that is part of some committed assistant message.
CommittedTokens ==
  UNION {UNION {Range(c) : c \in Range(committed[e])} : e \in Workers}

\* C1: for every exchange the accumulated reply is appended and saved exactly
\* once, never twice, counting the commits of on_request_finished and of
\* stop_streaming together: no exchange has two commits, and an exchange that
\* ran alone and ended with text delivered has one.
C1_CommittedExactlyOnce ==
  \A e \in Workers :
    /\ Len(committed[e]) <= 1
    /\ (fin_handled[e] /\ nexch = 1 /\ delivered[e] # << >>)
         => Len(committed[e]) = 1

\* C2: at no time are two ApiRequestThread workers running (started and not
\* yet past the emit of request_finished).
C2_AtMostOneWorkerRunning ==
  Cardinality({w \in Workers : Running(w)}) <= 1

\* C3: a send_message invoked while streaming is true, through the button or
\* through Return, appends no message, does not reset the accumulator and
\* starts no worker.
C3_SendWhileStreamingRejected ==
  [][\A inp \in Inputs, via \in Vias :
       (streaming /\ SendMessage(inp, via))
         => UNCHANGED <<messages, current_response, wpc>>]_vars

\* C4: when stop_streaming ran after k >= 1 delivered fragments of a
\* streaming exchange and the worker has finished, the exchange has a single
\* assistant message, made of the first k or the first k+1 fragments, and (no
\* later exchange having been started) the controller is idle.
C4_StopCommitsOnePrefix ==
  \A e \in Workers :
    (wstream[e] /\ stopped_at[e] >= 1 /\ fin_handled[e] /\ nexch = e)
      => /\ Len(committed[e]) = 1
         /\ committed[e][1] \in {Frags(e, stopped_at[e]),
                                 Frags(e, stopped_at[e] + 1)}
         /\ Idle

\* C5: after stop_streaming of a streaming exchange at most one fragment
\* still reaches update_response, and it is discarded: it is neither in
\* current_response nor in a committed assistant message.
C5_LateFragmentDiscarded ==
  \A w \in Workers :
    wstream[w] =>
      /\ Len(late[w]) <= 1
      /\ \A f \in Range(late[w]) :
           f \notin Range(current_response) /\ f \notin CommittedTokens

\* C6: in streaming mode, once run() has read stop_requested as True it
\* emits no further response_received and pulls no further fragment.
C6_NoEmitNoPullAfterStopObserved ==
  [][\A w \in Workers :
       observed[w] => (emitted'[w] = emitted[w] /\ pulled'[w] = pulled[w])]_vars

\* A streaming worker that saw the flag with a fragment in hand, dropped it
\* and finished.
C6_Witness ==
  \E w \in Workers :
    observed[w] /\ wstream[w] /\ wpc[w] = "done" /\ pulled[w] > Len(emitted[w])

\* C7: if the transport fails after fragments were delivered, the text
\* delivered for that exchange is committed: once the failed worker's
\* request_finished has been handled, every delivered fragment is part of a
\* committed assistant message.
C7_PartialTextCommittedOnFailure ==
  \A w \in Workers :
    (failed[w] /\ fin_handled[w])
      => Range(delivered[w]) \subseteq CommittedTokens

\* C8: the fragments a worker emits reach update_response in the order the
\* transport produced them, each exactly once: what was delivered followed
\* by what waits in the queue is what was emitted, and what was emitted is
\* the transport's production order without gap.
C8_FragmentsDeliveredInOrder ==
  \A w \in Workers :
    /\ delivered[w] \o QueuedFrags(w) = emitted[w]
    /\ emitted[w] = Frags(w, Len(emitted[w]))
    /\ Len(emitted[w]) \in {pulled[w] - 1, pulled[w]}

\* A worker two of whose fragments went through update_response.
C8_Witness ==
  \E w \in Workers : Len(delivered[w]) >= 2 /\ wstream[w]

\* C9: an exchange that completes without stop and without error has one
\* committed assistant message, the concatenation in production order of all
\* the fragments its transport call produced.
C9_NormalCompletionCommitsAll ==
  \A e \in Workers :
    (fin_handled[e] /\ ~failed[e] /\ stopped_at[e] = -1 /\ pulled[e] >= 1)
      => committed[e] = << Frags(e, pulled[e]) >>

\* C10: after logout the user profile is the empty default in memory and,
\* when the write went through, in the persisted document.
C10_LogoutResetsProfile ==
  last_op = "logout"
    => /\ config.user = EmptyUser
       /\ last_write_ok => (file_state = "ok" /\ file_doc.user = EmptyUser)

\* C11: an existing history entry never changes: a step changes
\* config["history"] only by removing one entry (a deletion), so every entry
\* that stays keeps its title, timestamp and messages, also when it was loaded
\* as the current conversation and messages were then appended to that.
C11_HistoryEntriesImmutable ==
  [][config'.history # config.history
       => \E index \in DOMAIN config.history :
            config'.history = RemoveAt(config.history, index)]_vars

\* An entry was loaded as the conversation, a message was sent and a reply
\* committed on top of it, and the entry is still in the history.
C11_Witness ==
  \E index \in DOMAIN config.history :
    LET archived == config.history[index].messages IN
    /\ Len(messages) >= Len(archived) + 2
    /\ SubSeq(messages, 1, Len(archived)) = archived
    /\ messages[Len(messages)].role = "assistant"

\* C12: a send_message called while the configured api_key is empty changes
\* neither the conversation, the stored session nor the accumulator and
\* starts no worker.
C12_SendWithoutKeyRejected ==
  [][\A inp \in Inputs, via \in Vias :
       (config.api_key = "" /\ SendMessage(inp, via))
         => UNCHANGED <<messages, config, file_doc, current_response, wpc>>]_vars

\* A call of chat() that passed the interval test.
Accepted(k) == cpc[k] \in {"assign", "post", "posted"}

\* C13: a call made less than min_request_interval after an accepted call on
\* the same client fails before its HTTP request, in either mode: no two
\* accepted calls on one client were made less than the interval apart.
C13_CallsSpacedPerClient ==
  \A j, k \in Calls :
    (j # k /\ Accepted(j) /\ Accepted(k) /\ cclient[j] = cclient[k])
      => \/ current_time[j] - current_time[k] >= min_request_interval
         \/ current_time[k] - current_time[j] >= min_request_interval

\* The events of signal sig of worker w that wait in the event queue.
Queued(sig, w) == {i \in DOMAIN queue : queue[i].sig = sig /\ queue[i].w = w}

\* C14: a worker whose transport call raised emits error_occurred exactly
\* once (a worker whose call did not raise, never), the main thread receives
\* it before that worker's request_finished, and on_api_error leaves the
\* controller idle.
C14_FailureReportedOnceThenIdle ==
  /\ [](\A w \in Workers :
         /\ Cardinality(Queued("error_occurred", w)) + err_handled[w]
              = IF failed[w] THEN 1 ELSE 0
         /\ \A i \in Queued("error_occurred", w) :
              \A j \in Queued("request_finished", w) : i < j
         /\ (failed[w] /\ fin_handled[w]) => err_handled[w] = 1)
  /\ [][OnApiError => Idle']_vars

\* A streaming worker failed after a fragment was delivered; its error and
\* its request_finished have both been handled.
C14_Witness ==
  \E w \in Workers :
    /\ failed[w] /\ wstream[w] /\ delivered[w] # << >>
    /\ err_handled[w] = 1 /\ fin_handled[w] /\ Idle

\* C15: every exchange send_message started is eventually finished by
\* on_request_finished, which runs once per worker (one request_finished is
\* emitted when run() returns, none before) and leaves the controller idle,
\* with an empty accumulator as with a non-empty one.
C15_EveryExchangeReturnsToIdle ==
  /\ \A w \in Workers : Started(w) ~> fin_handled[w]
  /\ [](\A w \in Workers :
         Cardinality(Queued("request_finished", w))
           + (IF fin_handled[w] THEN 1 ELSE 0)
           = IF wpc[w] = "done" THEN 1 ELSE 0)
  /\ [][OnRequestFinished => Idle']_vars

\* Two exchanges have been finished, one with an empty accumulator (its call
\* produced no fragment) and one whose reply was committed.
C15_Witness ==
  \E v, w \in Workers :
    /\ fin_handled[v] /\ pulled[v] = 0 /\ committed[v] = << >>
    /\ fin_handled[w] /\ committed[w] # << >>
    /\ Idle

\* C16: no assistant message of the conversation or of the stored session
\* has empty content, and a finalization (on_request_finished or
\* stop_streaming) that finds the accumulator empty changes neither the
\* conversation nor the stored session.
C16_NoEmptyAssistantMessage ==
  /\ [](\A m \in Range(messages) \union Range(config.current_session) :
         m.role = "assistant" => m.content # << >>)
  /\ [][((OnRequestFinished \/ StopStreaming) /\ current_response = << >>)
          => UNCHANGED <<messages, config, file_state, file_doc>>]_vars

\* An exchange was stopped before its first fragment and finished with
\* nothing committed.
C16_Witness ==
  \E w \in Workers :
    stopped_at[w] = 0 /\ fin_handled[w] /\ committed[w] = << >>

\* The exchange of self.api_thread is in the Streaming state: a fragment has
\* been received and the worker has not finished.
InStreamingState ==
  /\ streaming
  /\ api_thread # NoThread
  /\ delivered[api_thread] # << >>
  /\ Running(api_thread)

\* C17: stop_streaming invoked outside the Streaming state (idle, before the
\* first fragment, after the worker ended) sets no stop flag and changes
\* neither the conversation nor the store.
C17_StopOnlyWhileStreaming ==
  [][(StopStreaming /\ ~InStreamingState)
       => UNCHANGED <<stop_requested, messages, config, file_state, file_doc>>]_vars

\* Exchange e is in flight: started, and its request_finished not yet handled.
InFlight(e) == Started(e) /\ ~fin_handled[e]

\* C18: while an exchange is in flight clear_conversation does not replace
\* the conversation, and whenever an assistant reply is committed for an
\* exchange the conversation it is appended to holds that exchange's user
\* message.
C18_ConversationOwnedByExchange ==
  [][/\ (ClearConversation /\ \E e \in Workers : InFlight(e))
          => UNCHANGED messages
     /\ \A e \in Workers :
          committed'[e] # committed[e]
            => Message("user", UserText(e)) \in Range(messages')]_vars

\* Worker w has been started and chat() has yet to build its payload.
BeforeRequest(w) == wpc[w] = "next" /\ pulled[w] = 0

IsBlank(text) == \A i \in DOMAIN text : text[i] = " "

\* C19: the conversation a worker is about to hand to the transport, the
\* list send_message gave it, holds the user message of its exchange (the
\* stripped input, appended before the launch); and a send_message with
\* blank or whitespace-only input changes no state.
C19_TransportGetsUserMessage ==
  /\ \A w \in Workers :
       BeforeRequest(w)
         => Message("user", UserText(w)) \in Range(wmessages[w])
  /\ \A inp \in {text \in Inputs : IsBlank(text)}, via \in Vias :
       ~ENABLED (SendMessage(inp, via) /\ vars' # vars)

\* A worker is about to hand over a conversation that the controller has
\* replaced in the meantime.
C19_Witness ==
  \E w \in Workers :
    /\ BeforeRequest(w) /\ w \notin sharing
    /\ Message("user", UserText(w)) \in Range(wmessages[w])

\* C20: no step of a worker thread changes the conversation, the accumulator
\* or the store (the configuration in memory and config.json): these change
\* only in the handlers of the main thread.
C20_WorkerNeverMutates ==
  [][(\E w \in Workers :
        WorkerYield(w) \/ WorkerEnd(w) \/ WorkerRaise(w) \/ WorkerLoop(w))
       => UNCHANGED <<messages, current_response, savedvars>>]_vars

\* A worker has emitted a fragment and finished while the main thread has
\* handled none of its signals: the accumulator is still empty.
C20_Witness ==
  \E w \in Workers :
    /\ wpc[w] = "done" /\ emitted[w] # << >> /\ delivered[w] = << >>
    /\ current_response = << >> /\ ~fin_handled[w]

----------------------------------------------------------------------------
\* C21: in every reachable state the history list of the store holds at most
\* 50 entries, whatever load_config, add_to_history and delete_history calls
\* came before.
C21_HistoryAtMostFifty == Len(config.history) <= HistoryLimit

----------------------------------------------------------------------------
\* C22: add_to_history with a non-empty conversation puts the new entry at
\* index 0, keeps the earlier entries in their order behind it, and drops
\* only the oldest (last) entries when the list would pass 50; the list is
\* therefore always newest first, and 51 appends to an empty history leave
\* the 50 newest.
NewestFirst(list) ==
  \A i, j \in DOMAIN list : i < j => list[i].timestamp > list[j].timestamp
AddedInFront(old, new, session, now) ==
  /\ Len(new) = (IF Len(old) + 1 > HistoryLimit THEN HistoryLimit ELSE Len(old) + 1)
  /\ new[1].messages = session
  /\ new[1].timestamp = now
  /\ \A i \in 2..Len(new) : new[i] = old[i - 1]
C22_NewEntryFirstOldestDropped ==
  /\ [](NewestFirst(config.history))
  /\ [][\A session \in Conversations \ {<< >>} :
          AddToHistory(session, Now)
            => AddedInFront(config.history, config'.history, session, Now)]_vars
C22_Witness ==
  /\ last_op = "add_to_history"
  /\ Len(config.history) = HistoryLimit
  /\ Len(DEFAULT_CONFIG.history) = HistoryLimit + 1
  /\ \A i \in 1..HistoryLimit : config.history[i].timestamp = HistoryLimit + 2 - i

----------------------------------------------------------------------------
\* C23: the title add_to_history gives an entry is the content of the first
\* message when that content has at most 30 characters, and its first 30
\* characters followed by the ellipsis marker when it has more.
TitleOf(content) ==
  IF Len(content) <= TitleLimit THEN content
  ELSE [k \in 1..(TitleLimit + 3) |->
          IF k <= TitleLimit THEN content[k] ELSE Dot]
C23_TitleIsContentOrThirtyAndEllipsis ==
  \A i \in DOMAIN config.history :
    "content" \in DOMAIN config.history[i].messages[1]
      => config.history[i].title = TitleOf(config.history[i].messages[1].content)
C23_Witness ==
  /\ last_op = "add_to_history"
  /\ Len(config.history) = 2
  /\ \A i \in 1..2 : "content" \in DOMAIN config.history[i].messages[1]
  /\ Len(config.history[1].messages[1].content) = TitleLimit + 3
  /\ Len(config.history[1].title) = TitleLimit + 3
  /\ config.history[2].messages[1].content = LongText(TitleLimit)
  /\ config.history[2].title = LongText(TitleLimit)

----------------------------------------------------------------------------
----------------------------------------------------------------------------
\* C25: load_config on a document that lacks a key of the defaults gives the
\* built-in default for that key and the document's value for every key the
\* document has; the document's user object is merged into the default user
\* sub-key by sub-key instead of replacing it.
MergedPerKey(cfg, doc) ==
  \A key \in DOMAIN PristineDefaults :
    IF key \notin DOMAIN doc THEN cfg[key] = PristineDefaults[key]
    ELSE IF key = "user"
      THEN \A sub \in DOMAIN EmptyUser :
             cfg.user[sub] = IF sub \in DOMAIN doc.user THEN doc.user[sub]
                                                        ELSE EmptyUser[sub]
      ELSE cfg[key] = doc[key]
C25_MissingKeysTakeDefaults ==
  (last_op = "load_config" /\ Readable) => MergedPerKey(config, json_load(FileText))

----------------------------------------------------------------------------
\* C26: when set, add_to_history with a non-empty conversation,
\* clear_current_session, save_current_session, set_user_info or logout
\* returns after a successful write, the document in the file equals the
\* configuration in memory: nothing waits for a later call to be persisted.
Mutations == {"set", "add_to_history", "clear_current_session",
              "save_current_session", "set_user_info", "logout"}
C26_WrittenThrough ==
  [][(last_op' \in Mutations /\ last_write_ok' /\ ~UNCHANGED savedvars)
       => (Readable' /\ json_load(FileText)' = config')]_vars
C26_Witness ==
  /\ last_op = "add_to_history"
  /\ last_write_ok
  /\ file_state = "ok"
  /\ Len(file_doc.history) = 1
  /\ file_doc.theme = "dark"
  /\ file_doc.current_session = Plain
  /\ file_doc.user.username = "alice"
  /\ json_load(FileText) = config

----------------------------------------------------------------------------
\* C27: when the file exists and cannot be read or parsed, load_config
\* returns exactly the built-in default configuration.
C27_UnreadableFileGivesDefaults ==
  (last_op = "load_config" /\ file_state # "absent" /\ ~Readable)
    => config = PristineDefaults

----------------------------------------------------------------------------
\* C28: when save_config fails to write, the store operation that called it
\* still completes, the configuration in memory keeps the new value, and the
\* file keeps the content it had before the call.
FailedWrite ==
  last_op' \in Mutations /\ ~last_write_ok' /\ ~UNCHANGED savedvars
C28_FailedWriteKeepsFile ==
  [][FailedWrite
       => /\ UNCHANGED <<file_state, file_doc>>
          /\ \A value \in Themes : Set("theme", value) => config'.theme = value
          /\ \A msgs \in {Plain, Unwritable} :
               SaveCurrentSession(msgs) => config'.current_session = msgs]_vars

----------------------------------------------------------------------------
\* C29: in streaming mode process_stream yields, in order, exactly the
\* non-empty content deltas of the data: records before the first [DONE]
\* record; that record ends the sequence, nothing after it is yielded, and
\* no empty fragment is yielded.
IsSentinel(line) == line = <<DataPrefix, " ", DoneMark>>
Sentinels == {i \in DOMAIN lines : IsSentinel(lines[i])}
BeforeSentinel ==
  IF Sentinels = {} THEN lines
  ELSE SubSeq(lines, 1, (CHOOSE i \in Sentinels : \A j \in Sentinels : i <= j) - 1)
HasDelta(line) ==
  line \in {<<DataPrefix, " ", "{delta: a}">>, <<DataPrefix, " ", "{delta: b}">>}
ContentOf(line) == IF line[3] = "{delta: a}" THEN <<"a">> ELSE <<"b">>
Expected ==
  LET records == SelectSeq(BeforeSentinel, HasDelta) IN
  [i \in DOMAIN records |-> ContentOf(records[i])]
----------------------------------------------------------------------------
\* C30: a record whose payload is malformed (no valid JSON, or a document
\* without choices) is skipped without raising: the generator never ends with
\* an exception, and the deltas of the later well-formed records before the
\* end marker are still yielded.
Malformed(line) ==
  /\ Len(line) = 3
  /\ line[1] = DataPrefix
  /\ line[3] \in {"{oops", "{error}", "{choices: []}", "null"}
C30_MalformedRecordSkipped ==
  (\E i \in DOMAIN lines : Malformed(lines[i]))
    => /\ gen # "raised"
       /\ gen = "returned" => yielded = Expected

----------------------------------------------------------------------------
(* C31: in non-streaming mode an accepted chat call performs one request and
   yields exactly one fragment, equal to the full reply text of the response,
   and then ends.  Read for a response that has a reply text: status ok and a
   body whose first choice carries a message with a text as content.  The
   call makes one request, never a second; with such a response it does not
   raise, what it has yielded at the yield and after it is that text and
   nothing else, and the step after the yield ends the generator. *)
HasReplyText(resp) ==
  /\ resp.status = "ok"
  /\ resp.body \in {"{message: a}", "{message: ab}", "{message: }"}
ReplyText(resp) ==
  CASE resp.body = "{message: a}" -> <<"a">>
    [] resp.body = "{message: ab}" -> <<"a", "b">>
    [] resp.body = "{message: }" -> << >>
Requested(k) == cpc[k] \in {"json", "yielded", "returned"}
OneRequestOneFragment ==
  /\ posts <= 1
  /\ Requested(1) => posts = 1
  /\ cpc[1] \in {"none", "time", "check", "assign", "post"} => posts = 0
  /\ Len(yielded) <= 1
  /\ HasReplyText(response) =>
       /\ cpc[1] # "raised"
       /\ cpc[1] \in {"yielded", "returned"} =>
            yielded = <<ReplyText(response)>>
       /\ cpc[1] = "json" => yielded = << >>
EndsAfterYield ==
  cpc[1] = "yielded" =>
    /\ cpc'[1] \in {"yielded", "returned"}
    /\ yielded' = yielded /\ posts' = posts
C31_OneRequestOneFragmentThenEnd ==
  []OneRequestOneFragment /\ [][EndsAfterYield]_vars
C31_Witness ==
  /\ cpc[1] = "returned"
  /\ response = [status |-> "ok", body |-> "{message: ab}"]
  /\ yielded = << <<"a", "b">> >>
  /\ posts = 1

(* C32: the finalized assistant message of an exchange contains only
   fragments produced by that exchange's own transport call.  The
   accumulator holds fragments of the worker of the current exchange only,
   every committed message holds fragments of the exchange it was committed
   for only, and the request_finished of a worker that is not the current
   one neither commits nor ends anything. *)
Producer(f) == f[1]
OwnFragmentsOnly ==
  /\ \A f \in Range(current_response) : Producer(f) = api_thread
  /\ \A e \in Workers : \A c \in Range(committed[e]) :
       \A f \in Range(c) : Producer(f) = e
FinishedOf(w) ==
  /\ queue # << >>
  /\ Head(queue) = Event("request_finished", w, 0)
  /\ queue' = Tail(queue)
EarlierFinishIgnored ==
  \A w \in Workers :
    (FinishedOf(w) /\ w # api_thread)
      => UNCHANGED <<streaming, messages, committed>>
C32_OnlyOwnFragments ==
  []OwnFragmentsOnly /\ [][EarlierFinishIgnored]_vars

(* C33: no store operation ever modifies the built-in DEFAULT_CONFIG
   template: its user object and its history and current_session lists keep
   their initial empty values for the life of the process. *)
C33_DefaultsNeverModified ==
  \A key \in MutableKeys : DEFAULT_CONFIG[key] = PristineDefaults[key]

(* C34: over any sequence of sends, settings saves and logout/re-login, two
   HTTP requests issued by the application are never less than the minimum
   interval apart: replacing the client object does not reset the spacing
   window.  No two calls that passed the interval test, on whichever client
   objects, were made less than the interval apart. *)
C34_RequestsSpacedAcrossClients ==
  \A j, k \in Calls :
    (j # k /\ Accepted(j) /\ Accepted(k))
      => \/ current_time[j] - current_time[k] >= min_request_interval
         \/ current_time[k] - current_time[j] >= min_request_interval

(* C35: after every main-thread handler completes (initialize, send_message,
   on_request_finished, stop_streaming, clear_conversation,
   load_selected_history), the store's current_session equals the
   application's in-memory conversation.  Every state of the model is one
   between two handlers; the session the store holds, and the one in the
   file it wrote last, are the conversation. *)
C35_SessionIsConversation ==
  /\ config.current_session = messages
  /\ (last_write_ok /\ file_state = "ok") => file_doc.current_session = messages
C35_Witness ==
  /\ \E e \in Workers : committed[e] # << >>
  /\ Len(messages) >= 2
  /\ config.current_session = messages

(* C36: when an exchange fails before any fragment is received (for example
   rate-limited), the user message appended by send_message stays in the
   conversation and in the stored session and no assistant message is added,
   so the next send_message produces a conversation with two consecutive
   user messages.  The handlers of a failed worker's error_occurred and
   request_finished, run with nothing in the accumulator, change neither the
   conversation nor the store nor what is committed; an exchange that failed
   so and ran alone leaves the conversation as send_message made it, unless
   it was cleared; and an accepted send_message on a conversation that ends
   with a user message makes one that ends with two. *)
HandledFor(w) ==
  /\ queue # << >>
  /\ Head(queue).w = w
  /\ Head(queue).sig \in {"error_occurred", "request_finished"}
  /\ queue' = Tail(queue)
FailedEmpty(w) == failed[w] /\ emitted[w] = << >>
EndsWithUser(msgs) == msgs # << >> /\ msgs[Len(msgs)].role = "user"
FailureLeavesConversation ==
  \A w \in Workers :
    (HandledFor(w) /\ FailedEmpty(w) /\ current_response = << >>)
      => UNCHANGED <<messages, config, file_state, file_doc, committed>>
NextSendFollowsUser ==
  (nexch' = nexch + 1 /\ EndsWithUser(messages))
    => /\ Len(messages') = Len(messages) + 1
       /\ SubSeq(messages', 1, Len(messages)) = messages
       /\ EndsWithUser(messages')
FailedAloneKeepsUserMessage ==
  (nexch = 1 /\ FailedEmpty(1))
    => /\ messages \in {<< Message("user", UserText(1)) >>, << >>}
       /\ config.current_session = messages
       /\ committed[1] = << >>
C36_FailedExchangeKeepsUserMessage ==
  /\ []FailedAloneKeepsUserMessage
  /\ [][FailureLeavesConversation /\ NextSendFollowsUser]_vars
C36_Witness ==
  /\ FailedEmpty(1) /\ fin_handled[1] /\ err_handled[1] = 1
  /\ nexch = 2
  /\ messages = << Message("user", UserText(1)), Message("user", UserText(2)) >>
  /\ config.current_session = messages

(* C37: a chat call rejected as rate-limited leaves last_request_time
   unchanged, so a call is accepted as soon as min_request_interval has
   elapsed since the last accepted call, however many rejected calls occurred
   in between.  The step that rejects a call changes no last_request_time and
   a rejected call takes no further step; the time a client holds is never
   that of a rejected call only; and a call whose time is at least the
   interval after that of every accepted call on its client passes the
   test. *)
Rejected(k) == cpc[k] = "raised"
LastAccepted(k) ==
  Latest({current_time[j] : j \in {i \in Calls \ {k} :
                                     Accepted(i) /\ cclient[i] = cclient[k]}})
RejectionLeavesTime ==
  \A k \in Calls :
    /\ (cpc[k] = "check" /\ Rejected(k)') => UNCHANGED last_request_time
    /\ Rejected(k) => Rejected(k)'
AcceptedOnceElapsed ==
  \A k \in Calls :
    (/\ cpc[k] = "check" /\ cpc'[k] # "check"
     /\ current_time[k] - LastAccepted(k) >= min_request_interval)
      => cpc'[k] = "assign"
TimeOfAnAcceptedCall ==
  \A c \in Clients :
    \/ last_request_time[c] = 0
    \/ \E j \in Calls : /\ cclient[j] = c
                        /\ cpc[j] \in {"post", "posted"}
                        /\ current_time[j] = last_request_time[c]
C37_RejectedCallLeavesWindow ==
  /\ []TimeOfAnAcceptedCall
  /\ [][RejectionLeavesTime /\ AcceptedOnceElapsed]_vars
C37_Witness ==
  /\ \A k \in Calls : cclient[k] = 1
  /\ cpc[1] = "posted" /\ Rejected(2) /\ cpc[3] = "posted"
  /\ current_time[1] < current_time[2] /\ current_time[2] < current_time[3]
  /\ current_time[3] = current_time[1] + min_request_interval
  /\ last_request_time[1] = current_time[3]

====
